---------------------------- MODULE Spec2Model ----------------------------
(***************************************************************************)
(* A model of id_generator.py: the field variants (NumberField,            *)
(* DateTimeField, TimeField, SequenceField), the pack/unpack engine of     *)
(* IdGenerator and the counter store behind SequenceField.                 *)
(*                                                                         *)
(* Python integers are unbounded, so no arithmetic here is reduced modulo  *)
(* a machine width.  TLC's \div and % floor like Python's // and %.        *)
(*                                                                         *)
(* Raw values.  A raw value of the generation context is a Python int or a *)
(* Python str.  Every raw value is a record [kind, fmt, val]:              *)
(*   kind "int"      the int val                                           *)
(*   kind "numstr"   the decimal string of val ("42"); also what           *)
(*                   strftime('%H') yields, an hour being a decimal string *)
(*   kind "datetime" a string in DATE_TIME_FORMATS[fmt]; val counts the    *)
(*                   whole units of fmt seconds from the calendar origin   *)
(*                   2018-01-01 00:00:00 to the instant the string names   *)
(*   kind "time"     a string in TIME_FORMATS[fmt] (fmt MINUTE or SECOND); *)
(*                   val counts the units of fmt seconds since midnight    *)
(*   kind "text"     any other string ("garbage")                          *)
(*   kind "name"     a field's name, as SequenceField's key when it has no *)
(*                   keys                                                  *)
(* An instant (a naive datetime) is its number of seconds from the origin. *)
(***************************************************************************)
EXTENDS Integers, Sequences, FiniteSets, TLC

\* ------------------------------------------------------------------ bounds
\* The clock runs from the origin to MaxClock seconds.
MaxClock == 1
\* At most MaxCalls SequenceField.generate calls are logged in one run.
MaxCalls == 3
\* Integers handed to parse range over -MaxId .. (2^width + MaxId).
MaxId == 2
\* Unit-level field lists have up to MaxFields fields.
MaxFields == 2
\* Concurrent generation runs NProcs processes.
NProcs == 2
\* Raw integers and string contents handed to encode range over -2 .. MaxRaw.
MaxRaw == 3

\* --------------------------------------------------------------- constants
DAY == 86400
HOUR == 3600
MINUTE == 60
SECOND == 1

\* ------------------------------------------------- Python integer operators
RECURSIVE Pow2(_)
Pow2(n) == IF n = 0 THEN 1 ELSE 2 * Pow2(n - 1)

\* x << n
Shl(x, n) == x * Pow2(n)

\* x >> n (arithmetic: floors, so -1 >> n = -1)
Shr(x, n) == x \div Pow2(n)

Max2(a, b) == IF a >= b THEN a ELSE b

\* x & y and x | y on two's-complement integers of unbounded width.
RECURSIVE BitAnd(_, _)
RECURSIVE BitOr(_, _)
BitAnd(x, y) ==
    IF x < 0 /\ y < 0 THEN -1 - BitOr(-1 - x, -1 - y)
    ELSE IF y < 0 THEN BitAnd(y, x)
    ELSE IF y = 0 THEN 0
    ELSE (x % 2) * (y % 2) + 2 * BitAnd(x \div 2, y \div 2)

BitOr(x, y) ==
    IF x < 0 \/ y < 0 THEN -1 - BitAnd(-1 - x, -1 - y)
    ELSE IF x = 0 THEN y
    ELSE IF y = 0 THEN x
    ELSE Max2(x % 2, y % 2) + 2 * BitOr(x \div 2, y \div 2)

\* int(a / b) for b > 0: the quotient truncated toward zero.
TruncDiv(a, b) == IF a >= 0 THEN a \div b ELSE -((-a) \div b)

\* ---------------------------------------------------------------- raw values
IntVal(k) == [kind |-> "int", fmt |-> 0, val |-> k]
NumStr(k) == [kind |-> "numstr", fmt |-> 0, val |-> k]
Text == [kind |-> "text", fmt |-> 0, val |-> 0]

\* str(v)
Str(v) == IF v.kind = "int" THEN NumStr(v.val) ELSE v

\* dt.strftime(DATE_TIME_FORMATS[precision]) of the instant dt: the calendar
\* fields down to the precision, the finer ones dropped.
DateTimeStrftime(dt, precision) ==
    [kind |-> "datetime", fmt |-> precision, val |-> dt \div precision]

\* datetime.strptime(value, DATE_TIME_FORMATS[precision]): the instant, with
\* the fields below the precision zero; "error" for anything but a string of
\* that format.
DateTimeStrptime(value, precision) ==
    IF value.kind = "datetime" /\ value.fmt = precision
    THEN [ok |-> TRUE, dt |-> value.val * precision]
    ELSE [ok |-> FALSE, dt |-> 0]

\* time.strftime(TIME_FORMATS[precision]) of datetime.time(hour, minute, second)
TimeStrftime(hour, minute, second, precision) ==
    IF precision = HOUR THEN NumStr(hour)
    ELSE [kind |-> "time", fmt |-> precision,
          val |-> (hour * 3600 + minute * 60 + second) \div precision]

\* datetime.strptime(value, TIME_FORMATS[precision]).time()
TimeStrptime(value, precision) ==
    IF precision = HOUR /\ value.kind = "numstr" /\ value.val \in 0..23
    THEN [ok |-> TRUE, hour |-> value.val, minute |-> 0, second |-> 0]
    ELSE IF precision # HOUR /\ value.kind = "time" /\ value.fmt = precision
              /\ value.val \in 0..((DAY \div precision) - 1)
    THEN [ok |-> TRUE,
          hour |-> (value.val * precision) \div 3600,
          minute |-> ((value.val * precision) % 3600) \div 60,
          second |-> (value.val * precision) % 60]
    ELSE [ok |-> FALSE, hour |-> 0, minute |-> 0, second |-> 0]

\* ------------------------------------------------------------------- fields
\* One record shape for the four variants.  start/end are NumberField's,
\* seq_start/step are SequenceField's (start, step) pairs, precision/base are
\* the time fields'.  keys is SequenceField's list of field names.
NumberField(name, bits, start, end) ==
    [type |-> "number", name |-> name, bits |-> bits, start |-> start,
     end |-> end, seq_start |-> <<0, 0>>, step |-> <<0, 0>>,
     precision |-> 1, base |-> 0, keys |-> <<>>]

DateTimeField(name, bits, precision, base) ==
    [type |-> "datetime", name |-> name, bits |-> bits, start |-> 0,
     end |-> 0, seq_start |-> <<0, 0>>, step |-> <<0, 0>>,
     precision |-> precision, base |-> base, keys |-> <<>>]

TimeField(name, bits, precision) ==
    [type |-> "time", name |-> name, bits |-> bits, start |-> 0,
     end |-> 0, seq_start |-> <<0, 0>>, step |-> <<0, 0>>,
     precision |-> precision, base |-> 0, keys |-> <<>>]

SequenceField(name, bits, start, step, keys) ==
    [type |-> "sequence", name |-> name, bits |-> bits, start |-> 0,
     end |-> 0, seq_start |-> start, step |-> step,
     precision |-> 1, base |-> 0, keys |-> keys]

\* IdField.mask
Mask(field) == Shl(1, field.bits) - 1

\* ------------------------------------------------------- encode and decode
\* Results are [ok, number] for encode and [ok, value] for decode; ok is
\* FALSE where the Python raises.

\* IdField.encode: int(value)
IdFieldEncode(value) ==
    IF value.kind \in {"int", "numstr"}
    THEN [ok |-> TRUE, number |-> value.val]
    ELSE [ok |-> FALSE, number |-> 0]

DateTimeFieldEncode(field, value) ==
    LET p == DateTimeStrptime(value, field.precision)
        seconds == p.dt - field.base
    IN  IF p.ok
        THEN [ok |-> TRUE, number |-> TruncDiv(seconds, field.precision)]
        ELSE [ok |-> FALSE, number |-> 0]

DateTimeFieldDecode(field, number) ==
    LET seconds == number * field.precision
        dt == field.base + seconds
    IN  [ok |-> TRUE, value |-> DateTimeStrftime(dt, field.precision)]

TimeFieldEncode(field, value) ==
    LET t == TimeStrptime(value, field.precision)
        seconds == t.hour * 3600 + t.minute * 60 + t.second
    IN  IF t.ok
        THEN [ok |-> TRUE, number |-> seconds \div field.precision]
        ELSE [ok |-> FALSE, number |-> 0]

\* datetime.time(hour, minute, second) raises unless 0 <= hour <= 23.
TimeFieldDecode(field, number) ==
    LET seconds == number * field.precision
        hour == seconds \div 3600
        minute == (seconds % 3600) \div 60
        second == (seconds % 3600) % 60
    IN  IF hour \in 0..23
        THEN [ok |-> TRUE,
              value |-> TimeStrftime(hour, minute, second, field.precision)]
        ELSE [ok |-> FALSE, value |-> Text]

NumberFieldDecode(field, number) ==
    IF field.start <= number /\ number <= field.end
    THEN [ok |-> TRUE, value |-> IntVal(number)]
    ELSE [ok |-> FALSE, value |-> Text]

\* field.encode(value), dispatched on the variant
Encode(field, value) ==
    IF field.type = "datetime" THEN DateTimeFieldEncode(field, value)
    ELSE IF field.type = "time" THEN TimeFieldEncode(field, value)
    ELSE IdFieldEncode(value)

\* field.decode(number), dispatched on the variant
Decode(field, number) ==
    IF field.type = "datetime" THEN DateTimeFieldDecode(field, number)
    ELSE IF field.type = "time" THEN TimeFieldDecode(field, number)
    ELSE IF field.type = "number" THEN NumberFieldDecode(field, number)
    ELSE [ok |-> TRUE, value |-> IntVal(number)]

\* --------------------------------------------------------------- the engine
VARIABLES
    fields,   \* IdGenerator.fields, fixed at construction
    clock,    \* datetime.datetime.now(), in seconds from the origin
    cache,    \* SequenceField.cache: the counter store, key -> counter
    last,     \* the last call made and what it returned or raised
    seqlog,   \* history: the SequenceField.generate calls, <<key, seq>> each
    observed, \* history: the counters read from the store, <<key, prev>> each
    pc,       \* concurrent generation: each process's position
    local     \* concurrent generation: each process's key, prev and seq

vars == <<fields, clock, cache, last, seqlog, observed, pc, local>>

\* The empty dict.
EmptyDict == [n \in {} |-> 0]

\* d[k] = v
DictSet(d, k, v) == [n \in DOMAIN d \cup {k} |-> IF n = k THEN v ELSE d[n]]

Range(s) == {s[i] : i \in DOMAIN s}

\* SequenceField.generate's key: '-'.join(str(info[k]) for k in keys), or the
\* field's name.  The joined string is the tuple of the strings joined.
SequenceKey(field, info) ==
    IF field.keys # <<>>
    THEN [i \in DOMAIN field.keys |-> Str(info[field.keys[i]])]
    ELSE <<[kind |-> "name", fmt |-> 0, val |-> 0]>>

\* SequenceField._new_seq: the values rand.randint(*self.start) may return
NewSeq(field) == field.seq_start[1] .. field.seq_start[2]

\* _next_seq drawing its step from self.start instead of self.step
NextSeqFromStart(field, prev) ==
    {prev + d : d \in field.seq_start[1] .. field.seq_start[2]}

\* SequenceField._next_seq: the values prev + rand.randint(*self.step) may be
NextSeq(field, prev) == {prev + d : d \in field.step[1] .. field.step[2]}

\* field.generate(info): the set of [value, cache, calls] it may end with,
\* calls being the SequenceField.generate calls it made.
FieldGenerate(field, info, now, store) ==
    IF field.type = "number"
    THEN {[value |-> IntVal(n), cache |-> store, calls |-> <<>>] :
             n \in field.start .. field.end}
    ELSE IF field.type = "datetime"
    THEN {[value |-> DateTimeStrftime(now, field.precision),
           cache |-> store, calls |-> <<>>]}
    ELSE IF field.type = "time"
    THEN {[value |-> TimeStrftime((now % DAY) \div 3600,
                                  ((now % DAY) % 3600) \div 60,
                                  (now % DAY) % 60, field.precision),
           cache |-> store, calls |-> <<>>]}
    ELSE LET key == SequenceKey(field, info)
             seqs == IF key \in DOMAIN store THEN NextSeq(field, store[key])
                     ELSE NewSeq(field)
         IN  {[value |-> IntVal(seq), cache |-> DictSet(store, key, seq),
               calls |-> <<<<key, seq>>>>] : seq \in seqs}

\* _generate calling field.generate for every field, pinned or not, and only
\* then taking the pinned value
RECURSIVE GenerateFromAlways(_, _, _, _, _, _, _)
GenerateFromAlways(fs, i, custom_data, info, now, store, calls) ==
    IF i > Len(fs) THEN {[info |-> info, cache |-> store, calls |-> calls]}
    ELSE UNION {GenerateFromAlways(fs, i + 1, custom_data,
                    DictSet(info, fs[i].name,
                            IF fs[i].name \in DOMAIN custom_data
                            THEN custom_data[fs[i].name] ELSE g.value),
                    now, g.cache, calls \o g.calls) :
                   g \in FieldGenerate(fs[i], info, now, store)}

\* IdGenerator._generate from field i on: the set of [info, cache, calls] the
\* loop may end with.
RECURSIVE GenerateFrom(_, _, _, _, _, _, _)
GenerateFrom(fs, i, custom_data, info, now, store, calls) ==
    IF i > Len(fs) THEN {[info |-> info, cache |-> store, calls |-> calls]}
    ELSE IF fs[i].name \in DOMAIN custom_data
    THEN GenerateFrom(fs, i + 1, custom_data,
                      DictSet(info, fs[i].name, custom_data[fs[i].name]),
                      now, store, calls)
    ELSE UNION {GenerateFrom(fs, i + 1, custom_data,
                             DictSet(info, fs[i].name, g.value),
                             now, g.cache, calls \o g.calls) :
                   g \in FieldGenerate(fs[i], info, now, store)}

\* IdGenerator._generate
GenerateInfo(fs, custom_data, now, store) ==
    GenerateFrom(fs, 1, custom_data, EmptyDict, now, store, <<>>)

\* IdGenerator._encode: [ok, parts]
EncodeAll(fs, info) ==
    LET enc == [i \in DOMAIN fs |-> Encode(fs[i], info[fs[i].name])]
    IN  [ok |-> \A i \in DOMAIN fs : enc[i].ok,
         parts |-> [i \in DOMAIN fs |-> enc[i].number]]

\* The range check without its upper bound
PartNotNegative(field, number) == 0 <= number

\* One turn of _assemble's loop: the range check of a part
PartInRange(field, number) == 0 <= number /\ number <= Mask(field)

\* _assemble's loop shifting after the OR: (id_num | number) << field.bits
RECURSIVE AssembleFromShiftAfter(_, _, _, _)
AssembleFromShiftAfter(fs, parts, i, id_num) ==
    IF i > Len(fs) THEN [ok |-> TRUE, id_num |-> id_num]
    ELSE IF ~(0 <= parts[i] /\ parts[i] <= Shl(1, fs[i].bits) - 1)
    THEN [ok |-> FALSE, id_num |-> 0]
    ELSE AssembleFromShiftAfter(fs, parts, i + 1,
                                Shl(BitOr(id_num, parts[i]), fs[i].bits))

\* _assemble's loop from field i on, id_num being the accumulator so far
RECURSIVE AssembleFrom(_, _, _, _)
AssembleFrom(fs, parts, i, id_num) ==
    IF i > Len(fs) THEN [ok |-> TRUE, id_num |-> id_num]
    ELSE IF ~PartInRange(fs[i], parts[i]) THEN [ok |-> FALSE, id_num |-> 0]
    ELSE AssembleFrom(fs, parts, i + 1,
                      BitOr(Shl(id_num, fs[i].bits), parts[i]))

\* IdGenerator._assemble: [ok, id_num]
Assemble(fs, parts) ==
    IF Len(parts) # Len(fs) THEN [ok |-> FALSE, id_num |-> 0]
    ELSE AssembleFrom(fs, parts, 1, 0)

Reversed(s) == [i \in 1..Len(s) |-> s[Len(s) + 1 - i]]

\* _disassemble's loop over reversed(fields), field i next: the parts appended
\* so far (last field's first) and the rest of id_num
RECURSIVE DisassembleFrom(_, _, _, _)
DisassembleFrom(fs, i, id_num, parts) ==
    IF i = 0 THEN [parts |-> parts, id_num |-> id_num]
    ELSE DisassembleFrom(fs, i - 1, Shr(id_num, fs[i].bits),
                         Append(parts, BitAnd(id_num, Mask(fs[i]))))

\* _disassemble returning parts as appended, the last field's first
DisassembleNoReverse(fs, id_num) ==
    LET r == DisassembleFrom(fs, Len(fs), id_num, <<>>)
    IN  IF r.id_num # 0 THEN [ok |-> FALSE, parts |-> <<>>]
        ELSE [ok |-> TRUE, parts |-> r.parts]

\* _disassemble raising only on a positive remainder: if id_num > 0
DisassemblePositiveCheck(fs, id_num) ==
    LET r == DisassembleFrom(fs, Len(fs), id_num, <<>>)
    IN  IF r.id_num > 0 THEN [ok |-> FALSE, parts |-> <<>>]
        ELSE [ok |-> TRUE, parts |-> Reversed(r.parts)]

\* IdGenerator._disassemble: [ok, parts]
Disassemble(fs, id_num) ==
    LET r == DisassembleFrom(fs, Len(fs), id_num, <<>>)
    IN  IF r.id_num # 0 THEN [ok |-> FALSE, parts |-> <<>>]
        ELSE [ok |-> TRUE, parts |-> Reversed(r.parts)]

\* IdGenerator._decode: [ok, info]
DecodeAll(fs, parts) ==
    LET dec == [i \in DOMAIN fs |-> Decode(fs[i], parts[i])]
    IN  [ok |-> \A i \in DOMAIN fs : dec[i].ok,
         info |-> [n \in {fs[i].name : i \in DOMAIN fs} |->
                      dec[CHOOSE i \in DOMAIN fs : fs[i].name = n].value]]

\* IdGenerator._format and IdGenerator._parse of an int: the int itself
Format(id_num) == id_num

ParseInt(the_id) == the_id

\* IdGenerator.parse: [status, parts, info]
Parse(fs, the_id) ==
    LET d == Disassemble(fs, ParseInt(the_id))
        dec == DecodeAll(fs, d.parts)
    IN  IF ~d.ok
        THEN [status |-> "malformed", parts |-> <<>>, info |-> EmptyDict]
        ELSE IF ~dec.ok
        THEN [status |-> "decode_error", parts |-> d.parts, info |-> EmptyDict]
        ELSE [status |-> "ok", parts |-> d.parts, info |-> dec.info]

\* IdGenerator.generate: the set of outcomes [status, info, parts, the_id,
\* cache, calls] of one call; cache is the store the call leaves behind.
GenerateCall(fs, custom_data, now, store) ==
    {LET e == EncodeAll(fs, g.info)
         a == Assemble(fs, e.parts)
     IN  [status |-> IF ~e.ok THEN "encode_error"
                     ELSE IF ~a.ok THEN "assemble_error" ELSE "ok",
          info |-> g.info,
          parts |-> IF e.ok THEN e.parts ELSE <<>>,
          the_id |-> IF e.ok /\ a.ok THEN Format(a.id_num) ELSE -1,
          cache |-> g.cache,
          calls |-> g.calls] :
        g \in GenerateInfo(fs, custom_data, now, store)}

\* ------------------------------------------------------------ the generators
\* get_generators' two layouts with the widths and ranges scaled down
\* (1 + 29 + 16 bits, start (0, 10000), step (1, 10) in the source), and a
\* third layout over the variants the source's layouts leave out.
Order ==
    <<NumberField("placeholder", 1, 1, 1),
      DateTimeField("time", 2, SECOND, 0),
      SequenceField("sequence", 2, <<0, 1>>, <<1, 2>>, <<"time">>)>>

OrderM ==
    <<NumberField("placeholder", 1, 1, 1),
      DateTimeField("time", 1, MINUTE, 0),
      SequenceField("sequence", 2, <<0, 1>>, <<1, 2>>, <<"time">>)>>

Ticket ==
    <<TimeField("time", 2, SECOND),
      SequenceField("sequence", 2, <<1, 1>>, <<2, 2>>, <<>>)>>

Generators == {Order, OrderM, Ticket}

\* The raw values a caller may pin a field to.
CustomValues(field) ==
    IF field.type = "number"
    THEN {IntVal(-1), IntVal(0), IntVal(1), IntVal(2)}
    ELSE IF field.type = "datetime"
    THEN {DateTimeStrftime(field.precision, field.precision), Text}
    ELSE IF field.type = "time"
    THEN {TimeStrftime(0, 0, 1, field.precision), IntVal(1)}
    ELSE {IntVal(2), IntVal(4), NumStr(1)}

SeqField(fs) == fs[CHOOSE i \in DOMAIN fs : fs[i].type = "sequence"]

FieldNamed(fs, n) == fs[CHOOSE i \in DOMAIN fs : fs[i].name = n]

\* The custom_data dicts over fields i..: any subset of the fields pinned.
RECURSIVE CustomFrom(_, _)
CustomFrom(fs, i) ==
    IF i > Len(fs) THEN {EmptyDict}
    ELSE LET rest == CustomFrom(fs, i + 1)
         IN  rest \cup {DictSet(d, fs[i].name, v) :
                           d \in rest, v \in CustomValues(fs[i])}

CustomData(fs) == CustomFrom(fs, 1)

NoCall == [op |-> "none"]

Idle == [p \in {} |-> "idle"]

Init ==
    /\ fields \in Generators
    /\ clock = 0
    /\ cache = EmptyDict
    /\ last = NoCall
    /\ seqlog = <<>>
    /\ observed = <<>>
    /\ pc = Idle
    /\ local = Idle

\* The clock advances.
Tick ==
    /\ clock < MaxClock
    /\ clock' = clock + 1
    /\ UNCHANGED <<fields, cache, last, seqlog, observed, pc, local>>

\* generate_main, line 279: one call of IdGenerator.generate(custom_data).
Generate ==
    /\ last = NoCall
    /\ \E custom_data \in CustomData(fields) :
         \E r \in GenerateCall(fields, custom_data, clock, cache) :
           /\ Len(seqlog) + Len(r.calls) <= MaxCalls
           /\ cache' = r.cache
           /\ seqlog' = seqlog \o r.calls
           /\ last' = [op |-> "generate", custom_data |-> custom_data,
                       before |-> cache, now |-> clock,
                       status |-> r.status,
                       info |-> r.info, parts |-> r.parts,
                       the_id |-> r.the_id, calls |-> r.calls]
    /\ UNCHANGED <<fields, clock, observed, pc, local>>

\* generate_main, line 280: IdGenerator.parse of the identifier just generated.
ParseGenerated ==
    /\ last.op = "generate"
    /\ last.status = "ok"
    /\ LET r == Parse(fields, last.the_id)
       IN  last' = [op |-> "parse", the_id |-> last.the_id,
                    generated |-> last.info, status |-> r.status,
                    parts |-> r.parts, info |-> r.info]
    /\ UNCHANGED <<fields, clock, cache, seqlog, observed, pc, local>>

\* generate_main, line 281, or the exception of a failed call leaving it: the
\* call is over, and the store stays as it is for the next one.
Finish ==
    /\ \/ last.op = "parse"
       \/ last.op = "generate" /\ last.status # "ok"
    /\ last' = NoCall
    /\ UNCHANGED <<fields, clock, cache, seqlog, observed, pc, local>>

Next == Tick \/ Generate \/ ParseGenerated \/ Finish

Spec == Init /\ [][Next]_vars

\* ------------------------------------------------ the functions on their own
\* The pure functions of the engine and of the fields, applied to inputs drawn
\* from bounded sets, over field lists built from every variant.  The bases of
\* the DateTimeFields are instants in seconds from the origin: 0 and 3600 are
\* whole units of their field's precision, 30 is half a minute.
UnitFields ==
    {NumberField("flag", 1, 0, 1),
     NumberField("num", 2, 1, 2),
     DateTimeField("second", 3, SECOND, 0),
     DateTimeField("minute", 2, MINUTE, 30),
     DateTimeField("hour", 2, HOUR, 3600),
     DateTimeField("day", 1, DAY, 0),
     TimeField("tod_hour", 3, HOUR),
     TimeField("tod_minute", 2, MINUTE),
     TimeField("tod_second", 2, SECOND),
     SequenceField("seq", 2, <<0, 1>>, <<1, 2>>, <<>>)}

\* The field lists of 1..n distinct fields.
RECURSIVE FieldLists(_)
FieldLists(n) ==
    IF n = 0 THEN {}
    ELSE IF n = 1 THEN {<<f>> : f \in UnitFields}
    ELSE LET shorter == FieldLists(n - 1)
         IN  shorter \cup
             UNION {{Append(l, f) : f \in UnitFields \ Range(l)} :
                       l \in {m \in shorter : Len(m) = n - 1}}

\* The part lists handed to _assemble: one integer per field, each from just
\* below 0 to just above the field's mask.
RECURSIVE PartLists(_, _)
PartLists(fs, i) ==
    IF i = 0 THEN {<<>>}
    ELSE {Append(ps, n) : ps \in PartLists(fs, i - 1),
                          n \in -1 .. (Mask(fs[i]) + 1)}

RECURSIVE TotalBits(_, _)
TotalBits(fs, i) == IF i > Len(fs) THEN 0 ELSE fs[i].bits + TotalBits(fs, i + 1)

\* The integers handed to parse.
Ids(fs) == -MaxId .. (Pow2(TotalBits(fs, 1)) + MaxId)

\* The raw values handed to encode.
RawInputs ==
    {IntVal(k) : k \in -2 .. MaxRaw} \cup {NumStr(k) : k \in -2 .. MaxRaw}
    \cup {NumStr(23), NumStr(24), Text}
    \cup {[kind |-> "datetime", fmt |-> p, val |-> k] :
             p \in {DAY, HOUR, MINUTE, SECOND}, k \in -2 .. MaxRaw}
    \cup {[kind |-> "time", fmt |-> MINUTE, val |-> k] :
             k \in (0 .. MaxRaw) \cup {61, 1439, 1440}}
    \cup {[kind |-> "time", fmt |-> SECOND, val |-> k] :
             k \in (0 .. MaxRaw) \cup {61, 3601, 86399, 86400}}

UnitInit ==
    /\ fields \in FieldLists(MaxFields)
    /\ clock = 0
    /\ cache = EmptyDict
    /\ last = NoCall
    /\ seqlog = <<>>
    /\ observed = <<>>
    /\ pc = Idle
    /\ local = Idle

\* IdGenerator._assemble(parts)
AssembleParts ==
    /\ last = NoCall
    /\ \E parts \in PartLists(fields, Len(fields)) :
         LET a == Assemble(fields, parts)
         IN  last' = [op |-> "assemble", parts |-> parts, ok |-> a.ok,
                      id_num |-> a.id_num]
    /\ UNCHANGED <<fields, clock, cache, seqlog, observed, pc, local>>

\* IdGenerator._disassemble of the id_num just assembled
DisassembleAssembled ==
    /\ last.op = "assemble"
    /\ last.ok
    /\ LET d == Disassemble(fields, last.id_num)
       IN  last' = [op |-> "disassemble", id_num |-> last.id_num,
                    assembled |-> last.parts, ok |-> d.ok, parts |-> d.parts]
    /\ UNCHANGED <<fields, clock, cache, seqlog, observed, pc, local>>

\* IdGenerator.parse(the_id) of any integer
ParseId ==
    /\ last = NoCall
    /\ \E the_id \in Ids(fields) :
         LET r == Parse(fields, the_id)
         IN  last' = [op |-> "parse", the_id |-> the_id, status |-> r.status,
                      parts |-> r.parts, info |-> r.info]
    /\ UNCHANGED <<fields, clock, cache, seqlog, observed, pc, local>>

\* field.encode(value) of one field of the list
EncodeValue ==
    /\ last = NoCall
    /\ \E i \in DOMAIN fields, value \in RawInputs :
         LET e == Encode(fields[i], value)
         IN  last' = [op |-> "encode", field |-> fields[i], value |-> value,
                      ok |-> e.ok, number |-> e.number]
    /\ UNCHANGED <<fields, clock, cache, seqlog, observed, pc, local>>

\* field.decode(number) of the number just encoded
DecodeEncoded ==
    /\ last.op = "encode"
    /\ last.ok
    /\ LET d == Decode(last.field, last.number)
       IN  last' = [op |-> "decode", field |-> last.field,
                    encoded |-> last.value, number |-> last.number,
                    ok |-> d.ok, value |-> d.value]
    /\ UNCHANGED <<fields, clock, cache, seqlog, observed, pc, local>>

\* The call is over.
Return ==
    /\ last # NoCall
    /\ last' = NoCall
    /\ UNCHANGED <<fields, clock, cache, seqlog, observed, pc, local>>

UnitNext ==
    \/ AssembleParts
    \/ DisassembleAssembled
    \/ ParseId
    \/ EncodeValue
    \/ DecodeEncoded
    \/ Return

SpecUnit == UnitInit /\ [][UnitNext]_vars

\* ------------------------------------------------- concurrent generation
\* NProcs processes (or threads) run SequenceField.generate of the Order
\* generator against the one store.  The store's operations (key in cache,
\* cache[key], cache[key] = seq) are each atomic; the code takes no lock
\* around them, so the processes interleave between any two of them.
Procs == 1 .. NProcs

ConcInit ==
    /\ fields = Order
    /\ clock = 0
    /\ cache = EmptyDict
    /\ last = NoCall
    /\ seqlog = <<>>
    /\ observed = <<>>
    /\ pc = [p \in Procs |-> "idle"]
    /\ local = [p \in Procs |-> [key |-> <<>>, seq |-> 0]]

Running == {p \in Procs : pc[p] # "idle"}

\* Lines 127-131: a process enters generate with the context _generate built
\* so far and computes its key.
Enter(p) ==
    /\ pc[p] = "idle"
    /\ Len(seqlog) + Cardinality(Running) < MaxCalls
    /\ \E t \in 0 .. MaxClock :
         LET f == SeqField(fields)
             info == [time |-> DateTimeStrftime(t, FieldNamed(fields, "time").precision)]
         IN  local' = [local EXCEPT ![p] = [key |-> SequenceKey(f, info), seq |-> 0]]
    /\ pc' = [pc EXCEPT ![p] = "contains"]
    /\ UNCHANGED <<fields, clock, cache, last, seqlog, observed>>

\* Line 133: key in self.cache
Contains(p) ==
    /\ pc[p] = "contains"
    /\ pc' = [pc EXCEPT ![p] = IF local[p].key \in DOMAIN cache
                                THEN "get" ELSE "new"]
    /\ UNCHANGED <<fields, clock, cache, last, seqlog, observed, local>>

\* Line 133: self._next_seq(self.cache[key])
Get(p) ==
    /\ pc[p] = "get"
    /\ \E seq \in NextSeq(SeqField(fields), cache[local[p].key]) :
         local' = [local EXCEPT ![p].seq = seq]
    /\ observed' = Append(observed, <<local[p].key, cache[local[p].key]>>)
    /\ pc' = [pc EXCEPT ![p] = "set"]
    /\ UNCHANGED <<fields, clock, cache, last, seqlog>>

\* Line 133: self._new_seq()
New(p) ==
    /\ pc[p] = "new"
    /\ \E seq \in NewSeq(SeqField(fields)) :
         local' = [local EXCEPT ![p].seq = seq]
    /\ pc' = [pc EXCEPT ![p] = "set"]
    /\ UNCHANGED <<fields, clock, cache, last, seqlog, observed>>

\* Lines 134-135: self.cache[key] = seq; return seq
Set(p) ==
    /\ pc[p] = "set"
    /\ cache' = DictSet(cache, local[p].key, local[p].seq)
    /\ seqlog' = Append(seqlog, <<local[p].key, local[p].seq>>)
    /\ pc' = [pc EXCEPT ![p] = "idle"]
    /\ UNCHANGED <<fields, clock, last, observed, local>>

ConcNext ==
    \E p \in Procs : Enter(p) \/ Contains(p) \/ Get(p) \/ New(p) \/ Set(p)

SpecConc == ConcInit /\ [][ConcNext]_vars

\* ------------------------------------------------------------- the claims
\* Two raw values that read the same: the int 42 and the string "42" do.
SameRaw(a, b) == Str(a) = Str(b)

InMask(fs, parts) == \A i \in DOMAIN fs : 0 <= parts[i] /\ parts[i] <= Mask(fs[i])

\* The sum over i of parts[i] << (bits[i+1] + ... + bits[n]), from field i on
RECURSIVE PositionalSum(_, _, _)
PositionalSum(fs, parts, i) ==
    IF i > Len(fs) THEN 0
    ELSE parts[i] * Pow2(TotalBits(fs, i + 1)) + PositionalSum(fs, parts, i + 1)

Names(fs) == {fs[i].name : i \in DOMAIN fs}

\* C1: every identifier generate returns parses back: parse succeeds and
\* returns, for every field, the raw value of the generation context.
C1_ParsesBack ==
    last.op = "parse" /\ "generated" \in DOMAIN last =>
        /\ last.status = "ok"
        /\ \A n \in Names(fields) : SameRaw(last.info[n], last.generated[n])

\* C2: parts within their masks assemble, and disassembling the result
\* succeeds and returns exactly those parts, in field order.
C2_AssembleDisassembleInverse ==
    /\ last.op = "assemble" /\ InMask(fields, last.parts) => last.ok
    /\ last.op = "disassemble" /\ InMask(fields, last.assembled) =>
           last.ok /\ last.parts = last.assembled

C2_Witness ==
    /\ last.op = "disassemble"
    /\ Len(fields) >= 2
    /\ last.ok
    /\ last.assembled[1] > 0
    /\ last.assembled[1] # last.assembled[Len(fields)]
    /\ fields[1].bits # fields[Len(fields)].bits

\* C3: a generate call that fails leaves the counter store as it was before
\* the call.
C3_FailedGenerateLeavesStore ==
    last.op = "generate" /\ last.status # "ok" => cache = last.before

\* C4: under every interleaving of concurrent generations, no two generations
\* for the same key observe the same prior counter value.
C4_NoSharedPrior ==
    \A i, j \in DOMAIN observed : i # j => observed[i] # observed[j]

\* C5: of two successive SequenceField.generate calls for one key, whatever
\* was generated for other keys in between, the second returns at least the
\* first plus step.min and at most the first plus step.max.
C5_SuccessiveSteps ==
    \A i, j \in DOMAIN seqlog :
        /\ i < j
        /\ seqlog[i][1] = seqlog[j][1]
        /\ \A k \in (i + 1) .. (j - 1) : seqlog[k][1] # seqlog[i][1]
        => /\ seqlog[i][2] + SeqField(fields).step[1] <= seqlog[j][2]
           /\ seqlog[j][2] <= seqlog[i][2] + SeqField(fields).step[2]

C5_Witness ==
    /\ Len(seqlog) >= 3
    /\ seqlog[1][1] = seqlog[3][1]
    /\ seqlog[2][1] # seqlog[1][1]
    /\ seqlog[3][2] = seqlog[1][2] + SeqField(fields).step[2]
    /\ SeqField(fields).step[1] < SeqField(fields).step[2]

\* C6: generate returns an identifier only when every encoded part lies in
\* [0, mask] of its field; with any part outside, it fails with the assemble
\* error and returns nothing.
C6_BitContainment ==
    last.op = "generate" /\ last.status # "encode_error" =>
        /\ last.status = "ok" => InMask(fields, last.parts)
        /\ ~InMask(fields, last.parts) =>
               last.status = "assemble_error" /\ last.the_id = -1

\* A counter grown past its mask: the call fails with the assemble error.
C6_Witness ==
    /\ last.op = "generate"
    /\ last.status = "assemble_error"
    /\ last.calls # <<>>
    /\ last.calls[1][2] > Mask(SeqField(fields))
    /\ last.custom_data = EmptyDict

\* C7 as stated: an integer at or above 2^(total bits) fails to parse with
\* the malformed-identifier error, and an integer below that never does.
C7_MalformedIffAboveWidth ==
    last.op = "parse" /\ "generated" \notin DOMAIN last =>
        (last.status = "malformed" <=> last.the_id >= Pow2(TotalBits(fields, 1)))

\* C7, amended: an integer at or above 2^(total bits), and any negative
\* integer, fails to parse with the malformed-identifier error; an integer
\* from 0 up to that bound never does.
C7_MalformedIffOutsideWidth ==
    last.op = "parse" /\ "generated" \notin DOMAIN last =>
        (last.status = "malformed" <=>
            (last.the_id >= Pow2(TotalBits(fields, 1)) \/ last.the_id < 0))

C7_Witness ==
    /\ last.op = "parse"
    /\ Len(fields) >= 2
    /\ last.the_id > Pow2(TotalBits(fields, 1))
    /\ last.status = "malformed"

\* C8: for every field and every raw value its encode accepts, decode of the
\* encoded number succeeds and reproduces the value.
C8_RoundTrip ==
    last.op = "decode" => last.ok /\ SameRaw(last.value, last.encoded)

\* C9: a pinned field takes its custom value verbatim and its generate is
\* bypassed (a pinned SequenceField leaves the store as it was); an unpinned
\* field is produced by its generator, which sees the pinned values.
C9_PinnedBypass ==
    last.op = "generate" =>
        \A i \in DOMAIN fields :
            LET f == fields[i]
                v == last.info[f.name]
            IN  IF f.name \in DOMAIN last.custom_data
                THEN /\ v = last.custom_data[f.name]
                     /\ f.type = "sequence" =>
                            cache = last.before /\ last.calls = <<>>
                ELSE IF f.type = "number"
                THEN v.kind = "int" /\ v.val \in f.start .. f.end
                ELSE IF f.type = "datetime"
                THEN v = DateTimeStrftime(last.now, f.precision)
                ELSE IF f.type = "time"
                THEN v = TimeStrftime((last.now % DAY) \div 3600,
                                      ((last.now % DAY) % 3600) \div 60,
                                      (last.now % DAY) % 60, f.precision)
                ELSE LET key == SequenceKey(f, last.info)
                     IN  /\ last.calls = <<<<key, v.val>>>>
                         /\ v.kind = "int"
                         /\ cache = DictSet(last.before, key, v.val)
                         /\ v.val \in (IF key \in DOMAIN last.before
                                       THEN NextSeq(f, last.before[key])
                                       ELSE NewSeq(f))

\* The sequence pinned over a store that holds counters, the other fields
\* generated.
C9_Witness ==
    /\ last.op = "generate"
    /\ last.status = "ok"
    /\ DOMAIN last.custom_data = {"sequence"}
    /\ last.before # EmptyDict
    /\ cache = last.before

\* C10: for parts within their masks, _assemble returns the sum over i of
\* parts[i] << (bits[i+1] + ... + bits[n]): field i's bits hold parts[i], the
\* first field at the top, and no field's bits reach into another's.
C10_PositionalLayout ==
    last.op = "assemble" /\ InMask(fields, last.parts) =>
        /\ last.ok
        /\ last.id_num = PositionalSum(fields, last.parts, 1)
        /\ \A i \in DOMAIN fields :
               (last.id_num \div Pow2(TotalBits(fields, i + 1)))
                   % Pow2(fields[i].bits) = last.parts[i]

C10_Witness ==
    /\ last.op = "assemble"
    /\ last.ok
    /\ Len(fields) >= 2
    /\ last.parts[1] = Mask(fields[1])
    /\ last.parts[Len(fields)] = Mask(fields[Len(fields)])
    /\ last.id_num = Pow2(TotalBits(fields, 1)) - 1

=============================================================================
